---- MODULE Spec2Model ----
(***************************************************************************)
(* A model of posts_scraper.py: the listing-link extractor, the post-page  *)
(* extractors (date, content boundary, skip policy) and the crawl loop of  *)
(* main with its seen-URL set and record list.                             *)
(*                                                                         *)
(* Text is modelled at the character level: a text is a sequence of        *)
(* one-character strings ("NBSP" stands for U+00A0).  An href is modelled  *)
(* after urlparse: a scheme, a host and the path split at "/" (segs is     *)
(* path.split("/") without the empty piece before the leading slash).      *)
(* A listing page is the sequence of its <a href> elements in document     *)
(* order; a post page is the sequence of the top-level elements of its    *)
(* body, each with one text node of its own and a sequence of child        *)
(* elements (kids), so that document order is the preorder of this tree.   *)
(***************************************************************************)
EXTENDS Integers, Sequences, FiniteSets, TLC

VARIABLES
    pc,         \* position of the run
    li,         \* index into listing_urls of the listing page being processed
    list_html,  \* the listing page last fetched (main: listing_html)
    posts,      \* parse_listing's result for that page
    pidx,       \* 1-based index into posts of the candidate being processed
    html,       \* the post page last fetched, with the title expected for it
    data,       \* parse_post's last result
    rows,       \* main: rows
    seen_urls,  \* main: seen_urls
    stats,      \* what the last two prints of main report
    hist        \* history of the traversal (not program state)

vars == <<pc, li, list_html, posts, pidx, html, data, rows, seen_urls, stats, hist>>

-----------------------------------------------------------------------------
(* Characters and text                                                     *)

UpperCase == <<"A","B","C","D","E","F","G","H","I","J","K","L","M",
               "N","O","P","Q","R","S","T","U","V","W","X","Y","Z">>
LowerCase == <<"a","b","c","d","e","f","g","h","i","j","k","l","m",
               "n","o","p","q","r","s","t","u","v","w","x","y","z">>
Digits == {"0","1","2","3","4","5","6","7","8","9"}

IsDigit(c) == c \in Digits

UpperSet == {UpperCase[i] : i \in 1..26}
LowerSet == {LowerCase[i] : i \in 1..26}

IsLetter(c) == c \in UpperSet \/ c \in LowerSet

\* \w of the re module
IsWordChar(c) == IsLetter(c) \/ IsDigit(c) \/ c = "_"

\* \s of the re module, and what str.strip() strips
SpaceChars == {" ", "\n", "\t", "NBSP"}
IsSpace(c) == c \in SpaceChars

ToLower == [c \in UpperSet |-> LowerCase[CHOOSE i \in 1..26 : UpperCase[i] = c]]

LowerChar(c) == IF c \in UpperSet THEN ToLower[c] ELSE c

\* str.lower()
Lower(s) == [i \in 1..Len(s) |-> LowerChar(s[i])]

\* w in s
Contains(w, s) == \E i \in 0..(Len(s) - Len(w)) : SubSeq(s, i + 1, i + Len(w)) = w

\* s[:n]
Prefix(s, n) == SubSeq(s, 1, IF Len(s) < n THEN Len(s) ELSE n)

\* str.strip()
Strip(s) ==
    IF \A i \in 1..Len(s) : IsSpace(s[i]) THEN <<>>
    ELSE LET a == CHOOSE i \in 1..Len(s) : ~IsSpace(s[i]) /\ \A j \in 1..(i - 1) : IsSpace(s[j])
             b == CHOOSE i \in 1..Len(s) : ~IsSpace(s[i]) /\ \A j \in (i + 1)..Len(s) : IsSpace(s[j])
         IN  SubSeq(s, a, b)

\* re.sub(r"\s+", " ", ...): every whitespace character that follows a whitespace
\* character is dropped, the first of each run becomes one space
CollapseSpaces(s) ==
    LET marked == [i \in 1..Len(s) |->
                      [c    |-> IF IsSpace(s[i]) THEN " " ELSE s[i],
                       keep |-> ~IsSpace(s[i]) \/ i = 1 \/ ~IsSpace(s[i - 1])]]
        kept   == SelectSeq(marked, LAMBDA m : m.keep)
    IN  [k \in 1..Len(kept) |-> kept[k].c]

normalize_spaces(s) == Strip(CollapseSpaces(s))

\* get_text(strip=True) of an element with one text node
get_text_strip(s) == Strip(s)

-----------------------------------------------------------------------------
(* URLs                                                                    *)

BASE == [scheme |-> "https", host |-> "roachag.com", segs |-> <<>>]

EmptyHref == [scheme |-> "", host |-> "", segs |-> <<>>]

BAD_SLUGS ==
    {"Presentations", "Calendar", "Author", "World-Crop-Weather", "Brazil", "Argentina",
     "China", "Russia", "Europe", "Australia", "Brazil-Crop-Updates",
     "Yield-Reports", "Sell-Signal-Charts", "Futures-Prices", "Recent-Webinars", "WASDE"}

\* [p for p in path.split("/") if p]
NonEmptyParts(segs) == SelectSeq(segs, LAMBDA p : p # "")

\* The stack urljoin keeps while it resolves "." and ".." (resolved_path); the
\* stack starts with the empty piece before the leading slash.
RECURSIVE ResolveDots(_, _)
ResolveDots(segments, stack) ==
    IF segments = <<>> THEN stack
    ELSE LET seg == Head(segments) IN
         IF seg = ".."
         THEN ResolveDots(Tail(segments),
                          IF stack = <<>> THEN stack ELSE SubSeq(stack, 1, Len(stack) - 1))
         ELSE IF seg = "."
         THEN ResolveDots(Tail(segments), stack)
         ELSE ResolveDots(Tail(segments), Append(stack, seg))

\* urljoin(BASE, href) for an href with a path and no scheme or host
urljoin_path(segs) ==
    LET segments == <<"">> \o segs
        resolved == ResolveDots(segments, <<>>)
        joined   == IF segments[Len(segments)] \in {".", ".."}
                    THEN Append(resolved, "") ELSE resolved
    IN  IF joined = <<>> \/ joined = <<"">> THEN <<"">>
        ELSE IF joined[1] = "" THEN Tail(joined)
        ELSE joined

norm_url(href) ==
    IF href = EmptyHref THEN EmptyHref
    ELSE IF href.scheme = "https" THEN href
    ELSE [scheme |-> BASE.scheme, host |-> BASE.host, segs |-> urljoin_path(href.segs)]

is_clean_post_path(href) ==
    LET parts == NonEmptyParts(href.segs) IN
    IF parts = <<>> \/ parts[1] # "Resources" THEN FALSE
    ELSE IF Len(parts) >= 2 /\ parts[2] \in BAD_SLUGS THEN FALSE
    ELSE Len(parts) >= 2 /\ parts[2] # ""

-----------------------------------------------------------------------------
(* Listing pages                                                           *)

\* YEAR_RE = \b20\d{2}\b, searched
YearSearch(s) ==
    \E i \in 1..(Len(s) - 3) :
        /\ s[i] = "2" /\ s[i + 1] = "0" /\ IsDigit(s[i + 2]) /\ IsDigit(s[i + 3])
        /\ (i = 1 \/ ~IsWordChar(s[i - 1]))
        /\ (i + 4 > Len(s) \/ ~IsWordChar(s[i + 4]))

MinTitleLen == 10
MaxPosts == 10
SidebarDepth == 3

W_recentposts == <<"r","e","c","e","n","t","p","o","s","t","s">>
W_mwidgetposts == <<"m","w","i","d","g","e","t","p","o","s","t","s">>
W_widget == <<"w","i","d","g","e","t">>
W_sidebar == <<"s","i","d","e","b","a","r">>
SidebarWords == {W_recentposts, W_mwidgetposts, W_widget, W_sidebar}

\* The link passes the path filter and the title-length filter.
LinkAccepted(a) ==
    /\ is_clean_post_path(a.href)
    /\ get_text_strip(a.text) # <<>>
    /\ Len(get_text_strip(a.text)) >= MinTitleLen

\* One of the nearest three ancestors carries a sidebar/widget class.
is_sidebar(a) ==
    \E k \in 1..SidebarDepth :
        /\ k <= Len(a.anc)
        /\ \E w \in SidebarWords : Contains(w, Lower(a.anc[k]))

\* The body of both collection loops: append (full_url, text, has_year) unless the
\* URL was seen on this page.
RECURSIVE CollectLinks(_, _)
CollectLinks(anchors, acc) ==
    IF anchors = <<>> THEN acc
    ELSE LET a        == Head(anchors)
             text     == get_text_strip(a.text)
             full_url == norm_url(a.href)
         IN  IF \E k \in 1..Len(acc) : acc[k].url = full_url
             THEN CollectLinks(Tail(anchors), acc)
             ELSE CollectLinks(Tail(anchors),
                      Append(acc, [url |-> full_url, title |-> text,
                                   has_year |-> YearSearch(text)]))

\* article.post > h2.lb-title > a
PrimaryLinks(doc) ==
    CollectLinks(SelectSeq(doc, LAMBDA a : a.art /\ LinkAccepted(a)), <<>>)

\* every a[href] outside sidebars
FallbackLinks(doc) ==
    CollectLinks(SelectSeq(doc, LAMBDA a : LinkAccepted(a) /\ ~is_sidebar(a)), <<>>)

\* all_links before the sort
all_links(doc) == IF PrimaryLinks(doc) = <<>> THEN FallbackLinks(doc) ELSE PrimaryLinks(doc)

\* indexed_links.sort(key=lambda x: (not x[1][2], x[0])): the keys are distinct, so
\* the sorted list is the one list that holds every index once in key order.
SortKeyLess(links, i, j) ==
    \/ links[i].has_year /\ ~links[j].has_year
    \/ links[i].has_year = links[j].has_year /\ i < j

SortByYear(links) ==
    LET n    == Len(links)
        rank(i) == Cardinality({j \in 1..n : SortKeyLess(links, j, i)}) + 1
        at(r) == CHOOSE i \in 1..n : rank(i) = r
    IN  [r \in 1..n |-> links[at(r)]]

\* parse_listing with the slice [:10] taken before the sort.
parse_listing_cut_first(doc) ==
    LET first == SortByYear(Prefix(all_links(doc), MaxPosts))
    IN  [k \in 1..Len(first) |-> [url |-> first[k].url, title |-> first[k].title]]

parse_listing(doc) ==
    LET sorted == SortByYear(all_links(doc))
        first  == Prefix(sorted, MaxPosts)
    IN  [k \in 1..Len(first) |-> [url |-> first[k].url, title |-> first[k].title]]

-----------------------------------------------------------------------------
(* Dates                                                                   *)

MONTHS ==
    <<<<"j","a","n","u","a","r","y">>,
      <<"f","e","b","r","u","a","r","y">>,
      <<"m","a","r","c","h">>,
      <<"a","p","r","i","l">>,
      <<"m","a","y">>,
      <<"j","u","n","e">>,
      <<"j","u","l","y">>,
      <<"a","u","g","u","s","t">>,
      <<"s","e","p","t","e","m","b","e","r">>,
      <<"o","c","t","o","b","e","r">>,
      <<"n","o","v","e","m","b","e","r">>,
      <<"d","e","c","e","m","b","e","r">>>>

\* The month (1..12) whose name, in any case, starts at s[i]; 0 when none does.
MonthsAt(s, i) ==
    {m \in 1..12 : /\ i >= 1
                   /\ i + Len(MONTHS[m]) - 1 <= Len(s)
                   /\ \A k \in 1..Len(MONTHS[m]) : LowerChar(s[i + k - 1]) = MONTHS[m][k]}

PickMonth(ms) == IF ms = {} THEN 0 ELSE CHOOSE m \in ms : TRUE

MonthAt(s, i) == PickMonth(MonthsAt(s, i))

\* \d{n} at s[i]
DigitsAt(s, i, n) == i >= 1 /\ i + n - 1 <= Len(s) /\ \A k \in i..(i + n - 1) : IsDigit(s[k])

\* The length of the run of \s that starts at s[i]
RECURSIVE SpaceRun(_, _)
SpaceRun(s, i) == IF i <= Len(s) /\ IsSpace(s[i]) THEN 1 + SpaceRun(s, i + 1) ELSE 0

\* The pieces of DATE_RE.  A piece is a month name or a character class repeated
\* min to max times, greedily.
Unbounded == -1
ReMonth      == [cls |-> "month", min |-> 1, max |-> 1]
ReSpaces     == [cls |-> "space", min |-> 1, max |-> Unbounded]     \* \s+
ReOptSpaces  == [cls |-> "space", min |-> 0, max |-> Unbounded]     \* \s*
ReDay        == [cls |-> "digit", min |-> 1, max |-> 2]             \* \d{1,2}
ReYear       == [cls |-> "digit", min |-> 4, max |-> 4]             \* \d{4}
ReComma      == [cls |-> "comma", min |-> 1, max |-> 1]

\* Month\s+\d{1,2},\s*\d{4} | \d{1,2}\s+Month\s+\d{4}, re.I
DATE_RE ==
    <<<<ReMonth, ReSpaces, ReDay, ReComma, ReOptSpaces, ReYear>>,
      <<ReDay, ReSpaces, ReMonth, ReSpaces, ReYear>>>>

InClass(cls, c) ==
    \/ cls = "space" /\ IsSpace(c)
    \/ cls = "digit" /\ IsDigit(c)
    \/ cls = "comma" /\ c = ","

\* How many characters of the class follow from s[i], at most cap (Unbounded: any)
RECURSIVE RunLen(_, _, _, _)
RunLen(s, i, cls, cap) ==
    IF cap = 0 \/ i > Len(s) \/ ~InClass(cls, s[i]) THEN 0
    ELSE 1 + RunLen(s, i + 1, cls, IF cap = Unbounded THEN cap ELSE cap - 1)

\* The backtracking match of a sequence of pieces at s[i]: the index after the
\* match, 0 when there is none.  A repetition takes as much as it can and gives
\* back one character at a time.
RECURSIVE MatchAt(_, _, _)
RECURSIVE TryCount(_, _, _, _)
MatchAt(s, i, pat) ==
    IF pat = <<>> THEN i
    ELSE IF Head(pat).cls = "month"
    THEN LET m == MonthAt(s, i)
         IN  IF m = 0 THEN 0 ELSE MatchAt(s, i + Len(MONTHS[m]), Tail(pat))
    ELSE TryCount(s, i, pat, RunLen(s, i, Head(pat).cls, Head(pat).max))

TryCount(s, i, pat, n) ==
    IF n < Head(pat).min THEN 0
    ELSE LET rest == MatchAt(s, i + n, Tail(pat))
         IN  IF rest # 0 THEN rest ELSE TryCount(s, i, pat, n - 1)

\* The first alternative that matches at s[i]
RECURSIVE MatchAlternatives(_, _, _)
MatchAlternatives(s, i, alts) ==
    IF alts = <<>> THEN 0
    ELSE LET end == MatchAt(s, i, Head(alts))
         IN  IF end # 0 THEN end ELSE MatchAlternatives(s, i, Tail(alts))

\* DATE_RE.search(s): the leftmost match (m.group(0)), <<>> when there is none
DateSearch(s) ==
    LET starts == {i \in 1..Len(s) : MatchAlternatives(s, i, DATE_RE) # 0}
        first  == CHOOSE i \in starts : \A j \in starts : i <= j
    IN  IF starts = {} THEN <<>>
        ELSE SubSeq(s, first, MatchAlternatives(s, first, DATE_RE) - 1)

-----------------------------------------------------------------------------
(* Post pages                                                              *)

HeadingNames == {"h1", "h2"}

\* The elements of the page in document order, each with its place: top is the
\* index of its top-level element, sub its index among that element's children
\* (0 for the top-level element itself).
RECURSIVE Nodes(_, _)
Nodes(page, i) ==
    IF i > Len(page) THEN <<>>
    ELSE <<[el |-> page[i], top |-> i, sub |-> 0]>>
         \o [j \in 1..Len(page[i].kids) |-> [el |-> page[i].kids[j], top |-> i, sub |-> j]]
         \o Nodes(page, i + 1)

\* The text nodes under an element, in document order
Strings(el) == <<el.text>> \o [j \in 1..Len(el.kids) |-> el.kids[j].text]

\* get_text(sep, strip=True): the stripped, non-empty text nodes joined with sep
RECURSIVE JoinStripped(_, _, _)
JoinStripped(strings, sep, first) ==
    IF strings = <<>> THEN <<>>
    ELSE LET t == Strip(Head(strings)) IN
         IF t = <<>> THEN JoinStripped(Tail(strings), sep, first)
         ELSE (IF first THEN <<>> ELSE sep) \o t \o JoinStripped(Tail(strings), sep, FALSE)

get_text(el, sep) == JoinStripped(Strings(el), sep, TRUE)

RECURSIVE AllStrings(_, _)
AllStrings(page, i) ==
    IF i > Len(page) THEN <<>> ELSE Strings(page[i]) \o AllStrings(page, i + 1)

\* soup.get_text(" ", strip=True)
page_text(page) == JoinStripped(AllStrings(page, 1), <<" ">>, TRUE)

\* soup.find(pred): the index in Nodes of the first element that satisfies pred, 0
\* when none does
FindNode(nodes, pred) ==
    IF \E n \in 1..Len(nodes) : pred[nodes[n].el]
    THEN CHOOSE n \in 1..Len(nodes) :
             pred[nodes[n].el] /\ \A k \in 1..(n - 1) : ~pred[nodes[k].el]
    ELSE 0

\* The elements of the page, the domain of the predicates given to soup.find
Elements(nodes) == {nodes[n].el : n \in 1..Len(nodes)}

TitleMatches(el, title_text) ==
    el.name \in HeadingNames /\ Contains(Lower(title_text), Lower(get_text(el, <<>>)))

\* title_el, or the first h1/h2 when no heading holds the title; 0 when the page
\* has no h1/h2
TitleNode(nodes, title_text) ==
    LET title_el == FindNode(nodes, [el \in Elements(nodes) |-> TitleMatches(el, title_text)])
    IN  IF title_el # 0 THEN title_el
        ELSE FindNode(nodes, [el \in Elements(nodes) |-> el.name \in HeadingNames])

DateWindow == 8

\* The loop of tier 2: cur is an index in Nodes (past the end: None), k the
\* iterations left.  <<>> when the loop ends without a match.
RECURSIVE ScanNear(_, _, _)
ScanNear(nodes, cur, k) ==
    IF k = 0 \/ cur = 0 \/ cur > Len(nodes) THEN <<>>
    ELSE LET m == DateSearch(normalize_spaces(get_text(nodes[cur].el, <<" ">>)))
         IN  IF m # <<>> THEN normalize_spaces(m) ELSE ScanNear(nodes, cur + 1, k - 1)

\* Tier 1: the text of the first <time>, <<>> when the page has none or it is empty
TimeText(nodes, t) == IF t = 0 THEN <<>> ELSE get_text(nodes[t].el, <<>>)

\* First match wins: the <time>, then the window at the title, then the whole page.
FirstTier(time_text, near, whole) ==
    IF time_text # <<>> THEN normalize_spaces(time_text)
    ELSE IF near # <<>> THEN near
    ELSE normalize_spaces(whole)

\* DateTiers with range(9) in place of range(8): the title element and the 8 after it.
DateTiersNine(page, nodes, title_text) ==
    FirstTier(TimeText(nodes, FindNode(nodes, [el \in Elements(nodes) |-> el.name = "time"])),
              ScanNear(nodes, TitleNode(nodes, title_text), DateWindow + 1),
              DateSearch(normalize_spaces(page_text(page))))

DateTiers(page, nodes, title_text) ==
    FirstTier(TimeText(nodes, FindNode(nodes, [el \in Elements(nodes) |-> el.name = "time"])),
              ScanNear(nodes, TitleNode(nodes, title_text), DateWindow),
              DateSearch(normalize_spaces(page_text(page))))

extract_date_text(page, title_text) == DateTiers(page, Nodes(page, 1), title_text)

stop_words ==
    {<<"r","e","l","a","t","e","d"," ","p","o","s","t","s">>,
     <<"r","e","c","e","n","t"," ","p","o","s","t","s">>,
     <<"c","a","t","e","g","o","r","i","e","s">>,
     <<"t","a","g","s">>,
     <<"c","o","n","t","a","c","t"," ","u","s">>}

allowed ==
    {"p", "ul", "ol", "li", "h3", "h4", "h5", "blockquote", "figure", "img", "table",
     "thead", "tbody", "tr", "th", "td", "em", "strong", "a", "span"}

HeadingLen == 40

\* heading = sib.get_text(strip=True).lower()[:40]; any(w in heading for w in stop_words)
IsStop(sib) ==
    LET heading == Prefix(Lower(get_text(sib, <<>>)), HeadingLen)
    IN  \E w \in stop_words : Contains(w, heading)

\* sib.name in allowed or sib.find(an allowed descendant)
IsContent(sib) == sib.name \in allowed \/ \E j \in 1..Len(sib.kids) : sib.kids[j].name \in allowed

\* WalkSiblings with continue in place of break at a stop phrase.
RECURSIVE WalkSiblingsPast(_, _)
WalkSiblingsPast(sibs, parts) ==
    IF sibs = <<>> THEN parts
    ELSE IF IsStop(Head(sibs)) THEN WalkSiblingsPast(Tail(sibs), parts)
    ELSE WalkSiblingsPast(Tail(sibs),
                          IF IsContent(Head(sibs)) THEN Append(parts, Head(sibs)) ELSE parts)

\* The walk over title_el.next_siblings
RECURSIVE WalkSiblings(_, _)
WalkSiblings(sibs, parts) ==
    IF sibs = <<>> THEN parts
    ELSE IF IsStop(Head(sibs)) THEN parts
    ELSE WalkSiblings(Tail(sibs),
                      IF IsContent(Head(sibs)) THEN Append(parts, Head(sibs)) ELSE parts)

\* title_el.next_siblings: the elements after it under the same parent
NextSiblings(page, node) ==
    IF node.sub = 0 THEN SubSeq(page, node.top + 1, Len(page))
    ELSE SubSeq(page[node.top].kids, node.sub + 1, Len(page[node.top].kids))

\* The fragment is the sequence of the siblings kept ("".join(parts)).
extract_content_html(page, title_text) ==
    LET nodes == Nodes(page, 1)
        t     == TitleNode(nodes, title_text)
    IN  IF t = 0 THEN <<>> ELSE WalkSiblings(NextSiblings(page, nodes[t]), <<>>)

\* str(BeautifulSoup(fragment, "lxml")): a non-empty fragment comes back inside an
\* html/body wrapper.  Elements carry no href or src here, so the rewriting of the
\* references themselves is not visible.
absolutize_links(fragment_html) ==
    IF fragment_html = <<>> THEN fragment_html
    ELSE <<[name |-> "html", text |-> <<>>, kids |-> fragment_html]>>

DigitSeq == <<"0","1","2","3","4","5","6","7","8","9">>

DigitVal(c) == (CHOOSE n \in 1..10 : DigitSeq[n] = c) - 1

TwoDigits(n) == <<DigitSeq[(n \div 10) + 1], DigitSeq[(n % 10) + 1]>>

IsLeap(y) == (y % 4 = 0 /\ y % 100 # 0) \/ y % 400 = 0

DaysIn(m, y) ==
    IF m = 2 THEN (IF IsLeap(y) THEN 29 ELSE 28)
    ELSE IF m \in {4, 6, 9, 11} THEN 30 ELSE 31

\* strptime's %d at s[i], 3[0-1]|[1-2]\d|0[1-9]|[1-9], followed by a character
\* of stops: the number of digits taken, 0 when it fails.  (The fifth
\* alternative, a space and a digit, needs two spaces in a row, which a normalized
\* text does not have.)
StrpDayDigits(s, i, stops) ==
    LET v2 == 10 * DigitVal(s[i]) + DigitVal(s[i + 1]) IN
    IF DigitsAt(s, i, 2) /\ v2 >= 1 /\ v2 <= 31 /\ i + 2 <= Len(s) /\ s[i + 2] \in stops THEN 2
    ELSE IF DigitsAt(s, i, 1) /\ s[i] # "0" /\ i + 1 <= Len(s) /\ s[i + 1] \in stops THEN 1
    ELSE 0

DayVal(s, i, d) == IF d = 2 THEN 10 * DigitVal(s[i]) + DigitVal(s[i + 1]) ELSE DigitVal(s[i])

YearVal(s, y) ==
    1000 * DigitVal(s[y]) + 100 * DigitVal(s[y + 1]) + 10 * DigitVal(s[y + 2]) + DigitVal(s[y + 3])

\* strftime("%Y-%m-%d 10:00") of a date datetime accepts; <<>> when it raises
IsoOrNone(s, y, month, day) ==
    IF YearVal(s, y) >= 1 /\ day <= DaysIn(month, YearVal(s, y))
    THEN SubSeq(s, y, y + 3) \o <<"-">> \o TwoDigits(month) \o <<"-">> \o TwoDigits(day)
         \o <<" ","1","0",":","0","0">>
    ELSE <<>>

\* datetime.strptime(ds, "%B %d, %Y"), formatted; <<>> for ValueError
StrpMonthFirst(ds) ==
    LET m == MonthAt(ds, 1)
        j == 1 + (IF m = 0 THEN 0 ELSE Len(MONTHS[m]))
        k == j + SpaceRun(ds, j)
        d == StrpDayDigits(ds, k, {","})
        c == k + d + 1
        y == c + SpaceRun(ds, c)
    IN  IF m # 0 /\ k > j /\ d > 0 /\ y > c /\ DigitsAt(ds, y, 4) /\ y + 3 = Len(ds)
        THEN IsoOrNone(ds, y, m, DayVal(ds, k, d))
        ELSE <<>>

\* datetime.strptime(ds, "%d %B %Y"), formatted; <<>> for ValueError
StrpDayFirst(ds) ==
    LET d == StrpDayDigits(ds, 1, SpaceChars)
        j == 1 + d + SpaceRun(ds, 1 + d)
        m == MonthAt(ds, j)
        k == j + (IF m = 0 THEN 0 ELSE Len(MONTHS[m]))
        y == k + SpaceRun(ds, k)
    IN  IF d > 0 /\ m # 0 /\ y > k /\ DigitsAt(ds, y, 4) /\ y + 3 = Len(ds)
        THEN IsoOrNone(ds, y, m, DayVal(ds, 1, d))
        ELSE <<>>

to_iso_date(date_str) ==
    LET ds == normalize_spaces(date_str) IN
    IF StrpMonthFirst(ds) # <<>> THEN StrpMonthFirst(ds)
    ELSE IF StrpDayFirst(ds) # <<>> THEN StrpDayFirst(ds)
    ELSE ds

NoData == [title |-> <<>>, date |-> <<>>, content_html |-> <<>>, skip |-> FALSE]

\* SkipPolicy with "or" in place of "and".
SkipPolicyEither(body_html, date_txt) == body_html = <<>> \/ date_txt = <<>>

\* skip = (not body_html) and (not date_txt)
SkipPolicy(body_html, date_txt) == body_html = <<>> /\ date_txt = <<>>

\* The two locals of parse_post that decide skip
PostLocals(page, title) ==
    [body_html |-> absolutize_links(extract_content_html(page, title)),
     date_txt  |-> extract_date_text(page, title)]

\* The dictionary parse_post returns
Assemble(title, loc) ==
    [title |-> title, date |-> to_iso_date(loc.date_txt), content_html |-> loc.body_html,
     skip |-> SkipPolicy(loc.body_html, loc.date_txt)]

\* parse_post after the fetch.  main always passes a non-empty expected_title (the
\* listing keeps only texts of 10 or more characters), so title is expected_title.
\* The tags, the category and the featured image are not modelled.
parse_post(page, expected_title) == Assemble(expected_title, PostLocals(page, expected_title))

-----------------------------------------------------------------------------------------------------------------------------------------------------
(* What the site serves                                                    *)

Rel(segs) == [scheme |-> "", host |-> "", segs |-> segs]
Abs(segs) == [scheme |-> "https", host |-> "roachag.com", segs |-> segs]

TitleWasde ==  \* "WASDE Report 2025"
    <<"W","A","S","D","E"," ","R","e","p","o","r","t"," ","2","0","2","5">>
TitleCorn ==  \* "Corn Market Update"
    <<"C","o","r","n"," ","M","a","r","k","e","t"," ","U","p","d","a","t","e">>
TitleUsda ==  \* "USDA Supply Notes"
    <<"U","S","D","A"," ","S","u","p","p","l","y"," ","N","o","t","e","s">>
TitleShort ==  \* "Read more", 9 characters
    <<"R","e","a","d"," ","m","o","r","e">>
TitlePadded ==  \* "  Soybean Outlook 2024 "
    <<" "," ","S","o","y","b","e","a","n"," ","O","u","t","l","o","o","k"," ","2","0",
      "2","4"," ">>
TitleFiveDigits ==  \* "Top 20255 Farms"
    <<"T","o","p"," ","2","0","2","5","5"," ","F","a","r","m","s">>
TitleGlued ==  \* "Update2025 for Corn"
    <<"U","p","d","a","t","e","2","0","2","5"," ","f","o","r"," ","C","o","r","n">>
TitleEvents ==  \* "Events Calendar"
    <<"E","v","e","n","t","s"," ","C","a","l","e","n","d","a","r">>

ClassSidebar == <<"c","o","l"," ","S","i","d","e","B","a","r">>
ClassWidgets == <<"w","i","d","g","e","t","s">>
ClassPlain   == <<"r","o","w">>

\* An <a href> of a listing page: art says that it is the first link of the
\* h2.lb-title of an article.post, anc holds the class attributes of its ancestors,
\* the nearest first.
Anchor(href, text, art, anc) == [href |-> href, text |-> text, art |-> art, anc |-> anc]

HrefPost    == Rel(<<"Resources", "USDA-Update-2025">>)
HrefPostAbs == Abs(<<"Resources", "USDA-Update-2025">>)
HrefCorn    == Rel(<<"Resources", "Corn-Market-Update">>)
HrefDeep    == Rel(<<"Resources", "Corn-Market-Update", "2">>)
HrefCal     == Rel(<<"Resources", "Calendar">>)
HrefCal2    == Rel(<<"Resources", "", "Calendar">>)
HrefDotCal  == Rel(<<"Resources", ".", "Calendar">>)
HrefSection == Rel(<<"Resources", "">>)
HrefAbout   == Rel(<<"About">>)

LinkX     == Anchor(HrefPost, TitleUsda, TRUE, <<>>)
LinkXYear == Anchor(HrefPostAbs, TitleWasde, TRUE, <<>>)
LinkY     == Anchor(HrefCorn, TitleCorn, TRUE, <<>>)

\* The listing pages the site serves during a crawl
CrawlListings == {<<>>, <<LinkY, LinkX>>, <<LinkY, LinkXYear>>}

\* Listing pages of up to MaxLinks article links with distinct URLs, of which up to
\* MaxYearLinks have a year in the title (or all but that many)
MaxLinks == 12
MaxYearLinks == 3

Slug(i) == "Post-" \o ToString(i)

OrderListing(n, marked, flip) ==
    [i \in 1..n |-> Anchor(Rel(<<"Resources", Slug(i)>>),
                           IF (i \in marked) # flip THEN TitleWasde ELSE TitleCorn,
                           TRUE, <<>>)]

OrderListings ==
    {OrderListing(n, marked, flip) :
        n \in 0..MaxLinks,
        marked \in {m \in SUBSET (1..MaxLinks) : Cardinality(m) <= MaxYearLinks},
        flip \in BOOLEAN}

\* Short listing pages over links that the filters treat differently
FilterAnchors ==
    {LinkX, LinkXYear,
     Anchor(HrefPost, TitleShort, TRUE, <<>>),
     Anchor(HrefCorn, TitlePadded, FALSE, <<ClassPlain>>),
     Anchor(HrefDeep, TitleGlued, FALSE, <<ClassPlain, ClassSidebar>>),
     Anchor(HrefDeep, TitleFiveDigits, FALSE, <<ClassPlain, <<>>, <<>>, ClassWidgets>>),
     Anchor(HrefCal, TitleEvents, TRUE, <<>>),
     Anchor(HrefCal2, TitleEvents, FALSE, <<>>),
     Anchor(HrefDotCal, TitleEvents, TRUE, <<>>),
     Anchor(HrefSection, TitleWasde, TRUE, <<>>),
     Anchor(HrefAbout, TitleCorn, FALSE, <<>>),
     Anchor(EmptyHref, TitleCorn, FALSE, <<>>)}

MaxFilterLinks == 2

FilterListings ==
    UNION {[1..n -> FilterAnchors] : n \in 0..MaxFilterLinks}

ListingInputs == OrderListings \cup FilterListings

El(name, text) == [name |-> name, text |-> text, kids |-> <<>>]
Box(name, kids) == [name |-> name, text |-> <<>>, kids |-> kids]

TextPosted ==  \* "Posted September 12, 2025"
    <<"P","o","s","t","e","d"," ","S","e","p","t","e","m","b","e","r"," ","1","2",","," ",
      "2","0","2","5">>
TextDayFirst ==  \* "12 May 2024"
    <<"1","2"," ","M","a","y"," ","2","0","2","4">>
TextNbspDate ==  \* "Updated March 3, 2025" with no-break spaces
    <<"U","p","d","a","t","e","d","NBSP","M","a","r","c","h","NBSP","3",",","NBSP","2",
      "0","2","5">>
TextWhen ==  \* "sometime last week"
    <<"s","o","m","e","t","i","m","e"," ","l","a","s","t"," ","w","e","e","k">>
TextBody ==  \* "Corn rose."
    <<"C","o","r","n"," ","r","o","s","e",".">>
TextMenu ==  \* "Home"
    <<"H","o","m","e">>
TextHeadline ==  \* "Markets: WASDE report 2025 recap"
    <<"M","a","r","k","e","t","s",":"," ","W","A","S","D","E"," ","r","e","p","o","r",
      "t"," ","2","0","2","5"," ","r","e","c","a","p">>
TextRelated ==  \* "Related Posts"
    <<"R","e","l","a","t","e","d"," ","P","o","s","t","s">>
TextCategories ==  \* " CATEGORIES "
    <<" ","C","A","T","E","G","O","R","I","E","S"," ">>
TextPriceTags ==  \* "Price tags rose"
    <<"P","r","i","c","e"," ","t","a","g","s"," ","r","o","s","e">>
TextStraddle ==  \* "tags" is the 39th to 42nd of 51 characters
    <<"C","o","r","n"," ","a","n","d"," ","b","e","a","n"," ","b","a","s","i","s"," ",
      "f","i","r","m","e","d"," ","a","c","r","o","s","s"," ","t","h","e"," ","t","a",
      "g","s"," ","a","n","d"," ","b","i","n","s">>

\* body and date; body only; date only; neither
PageFull     == <<El("h1", TitleWasde), El("div", TextPosted), El("p", TextBody)>>
PageBodyOnly == <<El("h2", TitleCorn), El("p", TextBody)>>
PageDateOnly == <<El("div", TextPosted)>>
PageBare     == <<El("div", TextMenu)>>

\* The post pages the site serves during a crawl
CrawlPages == {PageFull, PageBodyOnly, PageDateOnly, PageBare}

\* Post pages: a title and up to MaxSiblings blocks after it
Blocks ==
    {El("p", TextBody), El("p", TextStraddle), El("h4", TextRelated),
     El("div", TextMenu), Box("div", <<El("p", TextBody)>>)}

MoreBlocks == {El("p", TextPriceTags), El("h3", TextCategories)}

LeafBlocks == {b \in Blocks \cup MoreBlocks : b.kids = <<>>}

MaxSiblings == 4
MaxNested == 2

ContentPages ==
    {<<El("h1", TitleWasde)>> \o sibs :
        sibs \in UNION {[1..n -> Blocks] : n \in 0..MaxSiblings}}
    \cup
    {<<El("p", TextBody), Box("div", <<El("h2", TitleWasde)>> \o sibs), El("p", TextBody)>> :
        sibs \in UNION {[1..n -> LeafBlocks] : n \in 0..MaxNested}}
    \cup
    {<<El("p", TextBody)>>}

\* Post pages: something before the title, the title, gap fillers, a dated block
MaxGap == 8

Repeat(el, n) == [i \in 1..n |-> el]

Befores ==
    {<<>>, <<El("p", TextDayFirst)>>, <<El("time", <<>>)>>, <<El("time", TextWhen)>>,
     <<El("h2", TextHeadline), El("p", TextDayFirst)>>}
Headings == {<<>>, <<El("h1", TitleWasde)>>}
Fillers == {El("p", TextBody), Box("div", <<El("span", TextMenu)>>)}
Dated == {<<>>, <<El("div", TextPosted)>>, <<Box("div", <<El("p", TextNbspDate)>>)>>}

DatePages ==
    {before \o heading \o Repeat(filler, gap) \o dated :
        before \in Befores, heading \in Headings, filler \in Fillers,
        gap \in 0..MaxGap, dated \in Dated}

PostInputs ==
    {[page |-> page, title |-> TitleWasde] : page \in ContentPages}
    \cup
    {[page |-> page, title |-> title] : page \in DatePages, title \in {TitleWasde, TitleCorn}}

-----------------------------------------------------------------------------
(* main                                                                    *)

NumListings == 2

\* LISTING_PAGES: the listing URLs, in order
listing_urls == [p \in 1..NumListings |-> p]

NoPage == [page |-> <<>>, title |-> <<>>]
NoStats == [unique |-> -1, total_seen |-> -1, duplicates_skipped |-> -1]

Event(kind, url) == [kind |-> kind, url |-> url, li |-> li, pos |-> pidx]

Init ==
    /\ pc = IF NumListings = 0 THEN "export" ELSE "list"
    /\ li = 1
    /\ list_html = <<>>
    /\ posts = <<>>
    /\ pidx = 0
    /\ html = NoPage
    /\ data = NoData
    /\ rows = <<>>
    /\ seen_urls = {}
    /\ stats = NoStats
    /\ hist = <<>>

\* The outer loop moves to the next listing URL, or leaves the loop for the export.
ToNextListing ==
    /\ li' = li + 1
    /\ pc' = IF li + 1 > Len(listing_urls) THEN "export" ELSE "list"
    /\ pidx' = 0

\* The inner loop moves to the next candidate, or the outer loop moves on.
ToNextCandidate ==
    IF pidx + 1 <= Len(posts)
    THEN /\ pidx' = pidx + 1
         /\ pc' = "post"
         /\ li' = li
    ELSE ToNextListing

\* ListingFailed with break in place of continue: the run goes to the export.
ListingFailedBreaks ==
    /\ pc = "list"
    /\ li' = Len(listing_urls) + 1
    /\ pc' = "export"
    /\ pidx' = 0
    /\ hist' = Append(hist, Event("list_fail", EmptyHref))
    /\ UNCHANGED <<list_html, posts, html, data, rows, seen_urls, stats>>

\* get_html raises for the listing page: the page is skipped.
ListingFailed ==
    /\ pc = "list"
    /\ ToNextListing
    /\ hist' = Append(hist, Event("list_fail", EmptyHref))
    /\ UNCHANGED <<list_html, posts, html, data, rows, seen_urls, stats>>

\* The listing page is fetched and parsed.
ListingFetched(doc) ==
    /\ pc = "list"
    /\ list_html' = doc
    /\ posts' = parse_listing(doc)
    /\ IF posts' = <<>>
       THEN ToNextListing
       ELSE /\ pidx' = 1
            /\ pc' = "post"
            /\ li' = li
    /\ hist' = Append(hist, Event("list_ok", EmptyHref))
    /\ UNCHANGED <<html, data, rows, seen_urls, stats>>

\* if url in seen_urls: continue
Duplicate ==
    /\ pc = "post"
    /\ posts[pidx].url \in seen_urls
    /\ ToNextCandidate
    /\ hist' = Append(hist, Event("dup", posts[pidx].url))
    /\ UNCHANGED <<list_html, posts, html, data, rows, seen_urls, stats>>

\* PostFailed with seen_urls.add(url) moved above the try block.
PostFailedMarked ==
    /\ pc = "post"
    /\ posts[pidx].url \notin seen_urls
    /\ seen_urls' = seen_urls \cup {posts[pidx].url}
    /\ ToNextCandidate
    /\ hist' = Append(hist, Event("fail", posts[pidx].url))
    /\ UNCHANGED <<list_html, posts, html, data, rows, stats>>

\* parse_post raises (the fetch or the parsing fails): the post is skipped.
PostFailed ==
    /\ pc = "post"
    /\ posts[pidx].url \notin seen_urls
    /\ ToNextCandidate
    /\ hist' = Append(hist, Event("fail", posts[pidx].url))
    /\ UNCHANGED <<list_html, posts, html, data, rows, seen_urls, stats>>

\* The record main builds (the columns that do not depend on the post are left out).
Record(url, d) ==
    [source_url |-> url, post_title |-> d.title, post_date |-> d.date,
     content_html |-> d.content_html]

\* SkipPost with seen_urls.add(url) moved above the skip test.
SkipPostMarked(page, d) ==
    /\ d.skip
    /\ html' = [page |-> page, title |-> posts[pidx].title]
    /\ data' = d
    /\ seen_urls' = seen_urls \cup {posts[pidx].url}
    /\ ToNextCandidate
    /\ hist' = Append(hist, Event("skip", posts[pidx].url))
    /\ UNCHANGED <<list_html, posts, rows, stats>>

\* data["skip"]: continue
SkipPost(page, d) ==
    /\ d.skip
    /\ html' = [page |-> page, title |-> posts[pidx].title]
    /\ data' = d
    /\ ToNextCandidate
    /\ hist' = Append(hist, Event("skip", posts[pidx].url))
    /\ UNCHANGED <<list_html, posts, rows, seen_urls, stats>>

\* AcceptPost with rows.insert(0, {...}) in place of rows.append({...}).
AcceptPostInFront(page, d) ==
    /\ ~d.skip
    /\ html' = [page |-> page, title |-> posts[pidx].title]
    /\ data' = d
    /\ seen_urls' = seen_urls \cup {posts[pidx].url}
    /\ rows' = <<Record(posts[pidx].url, d)>> \o rows
    /\ ToNextCandidate
    /\ hist' = Append(hist, Event("ok", posts[pidx].url))
    /\ UNCHANGED <<list_html, posts, stats>>

\* seen_urls.add(url); rows.append({...})
AcceptPost(page, d) ==
    /\ ~d.skip
    /\ html' = [page |-> page, title |-> posts[pidx].title]
    /\ data' = d
    /\ seen_urls' = seen_urls \cup {posts[pidx].url}
    /\ rows' = Append(rows, Record(posts[pidx].url, d))
    /\ ToNextCandidate
    /\ hist' = Append(hist, Event("ok", posts[pidx].url))
    /\ UNCHANGED <<list_html, posts, stats>>

\* parse_post returns skip: no record.
PostSkipped(page) ==
    /\ pc = "post"
    /\ posts[pidx].url \notin seen_urls
    /\ SkipPost(page, parse_post(page, posts[pidx].title))

\* PostAccepted without the test "if url in seen_urls: continue".
PostAcceptedAgain(page) ==
    /\ pc = "post"
    /\ AcceptPost(page, parse_post(page, posts[pidx].title))

\* parse_post returns a post: the URL is marked seen and one record is appended.
PostAccepted(page) ==
    /\ pc = "post"
    /\ posts[pidx].url \notin seen_urls
    /\ AcceptPost(page, parse_post(page, posts[pidx].title))

\* The export and the two final prints.
Export ==
    /\ pc = "export"
    /\ stats' = [unique |-> Len(rows), total_seen |-> Cardinality(seen_urls),
                 duplicates_skipped |-> Cardinality(seen_urls) - Len(rows)]
    /\ pc' = "done"
    /\ UNCHANGED <<li, list_html, posts, pidx, html, data, rows, seen_urls, hist>>

Next ==
    \/ ListingFailed
    \/ \E doc \in CrawlListings : ListingFetched(doc)
    \/ Duplicate
    \/ PostFailed
    \/ \E page \in CrawlPages : PostSkipped(page)
    \/ \E page \in CrawlPages : PostAccepted(page)
    \/ Export

Spec == Init /\ [][Next]_vars

\* main runs to its end: every step of the loop is taken once it can be.
FairSpec == Init /\ [][Next]_vars /\ WF_vars(Next)

-----------------------------------------------------------------------------
(* parse_listing and parse_post on their own                               *)

InitListing ==
    /\ pc = "listing"
    /\ li = 0
    /\ list_html \in ListingInputs
    /\ posts = <<>>
    /\ pidx = 0
    /\ html = NoPage
    /\ data = NoData
    /\ rows = <<>>
    /\ seen_urls = {}
    /\ stats = NoStats
    /\ hist = <<>>

\* posts = parse_listing(list_html=listing_html)
ParseListing ==
    /\ pc = "listing"
    /\ posts' = parse_listing(list_html)
    /\ pc' = "listing_parsed"
    /\ UNCHANGED <<li, list_html, pidx, html, data, rows, seen_urls, stats, hist>>

SpecListing == InitListing /\ [][ParseListing]_vars

InitPost ==
    /\ pc = "page"
    /\ li = 0
    /\ list_html = <<>>
    /\ posts = <<>>
    /\ pidx = 0
    /\ html \in PostInputs
    /\ data = NoData
    /\ rows = <<>>
    /\ seen_urls = {}
    /\ stats = NoStats
    /\ hist = <<>>

\* parse_post returns Assemble(title, loc); its locals are kept in hist.
Returned(title, loc) ==
    /\ data' = Assemble(title, loc)
    /\ hist' = <<loc>>

\* data = parse_post(session, url, title)
ParsePost ==
    /\ pc = "page"
    /\ Returned(html.title, PostLocals(html.page, html.title))
    /\ pc' = "page_parsed"
    /\ UNCHANGED <<li, list_html, posts, pidx, html, rows, seen_urls, stats>>

SpecPost == InitPost /\ [][ParsePost]_vars

-----------------------------------------------------------------------------
(* Properties of main                                                      *)

PostKinds == {"dup", "fail", "skip", "ok"}

\* The post URLs the inner loop has come to so far
Encountered == {hist[i].url : i \in {j \in 1..Len(hist) : hist[j].kind \in PostKinds}}

\* The positions in the traversal at which the inner loop came to u
Attempts(u) == {i \in 1..Len(hist) : hist[i].kind \in PostKinds /\ hist[i].url = u}

\* The positions at which a record for u was built
Built(u) == {i \in Attempts(u) : hist[i].kind = "ok"}

RowsOf(u) == {k \in 1..Len(rows) : rows[k].source_url = u}

RowUrls == {rows[k].source_url : k \in 1..Len(rows)}

Min(S) == CHOOSE x \in S : \A y \in S : x <= y

\* The step appends an event of this kind to the traversal
Stepped(kind) == Len(hist') = Len(hist) + 1 /\ hist'[Len(hist')].kind = kind

\* The candidate the inner loop is at
AtCandidate == pc = "post"

\* C1 (as amended): the records never hold one source_url twice; a URL has a
\* record exactly when one of its encounters was fetched and parsed without
\* failure or skip, that record was built at the first such encounter, every
\* earlier encounter of the URL failed or was skipped, and every later one
\* was dropped as a duplicate.
OneRecordPerUrl ==
    /\ RowUrls \subseteq Encountered
    /\ \A u \in Encountered :
        /\ Cardinality(RowsOf(u)) <= 1
        /\ Cardinality(RowsOf(u)) = Cardinality(Built(u))
        /\ \A i \in Built(u) : \A j \in Attempts(u) :
              /\ j < i => hist[j].kind \in {"fail", "skip"}
              /\ j > i => hist[j].kind = "dup"

\* C1, a run in which the amended statement differs from the original one: a URL
\* met on both listing pages, failed or skipped on the first and recorded on
\* the second.
RecordedOnSecondEncounter ==
    /\ pc = "done"
    /\ \E u \in Encountered :
        /\ Cardinality(RowsOf(u)) = 1
        /\ \E i, j \in Attempts(u) :
              /\ hist[i].li < hist[j].li
              /\ hist[i].kind \in {"fail", "skip"}
              /\ hist[j].kind = "ok"

\* C1 as stated: no source_url twice, and a URL yielded by two different
\* listing pages has exactly one record, built at its first encounter.
OneRecordFromFirstEncounter ==
    /\ \A j, k \in 1..Len(rows) : rows[j].source_url = rows[k].source_url => j = k
    /\ pc = "done" =>
          \A u \in Encountered :
              (\E i, j \in Attempts(u) : hist[i].li # hist[j].li) =>
                  /\ Cardinality(RowsOf(u)) = 1
                  /\ Built(u) = {Min(Attempts(u))}

\* C2: the dictionary parse_post returned for the page has skip true exactly
\* when the body fragment is empty and the raw date text is empty, and the
\* step of main that gets a skip leaves rows as it was.
SkipIffNoBodyNoDate ==
    /\ [](html # NoPage =>
            (data.skip <=> /\ data.content_html = <<>>
                           /\ extract_date_text(html.page, html.title) = <<>>))
    /\ [][Stepped("skip") => data'.skip /\ rows' = rows]_vars
    /\ [][Stepped("ok") => ~data'.skip]_vars

\* C2: a post with neither body nor date was skipped after a record had been
\* appended, and the record is still the only one.
SkippedAfterRecord ==
    /\ Len(hist) > 0
    /\ hist[Len(hist)].kind = "skip"
    /\ data.skip
    /\ html.page = PageBare
    /\ Len(rows) = 1

\* C3: a failed listing fetch moves to the next listing URL (to the export
\* after the last one), a failed post moves to the next candidate of the same
\* listing page (to the next listing URL after the last one); neither changes
\* rows or seen_urls; and every run reaches the export.
FailuresSkipOneItem ==
    /\ [][Stepped("list_fail") =>
            /\ li' = li + 1
            /\ pc' = IF li < Len(listing_urls) THEN "list" ELSE "export"
            /\ rows' = rows /\ seen_urls' = seen_urls]_vars
    /\ [][Stepped("fail") =>
            /\ IF pidx < Len(posts)
               THEN pc' = "post" /\ li' = li /\ pidx' = pidx + 1 /\ posts' = posts
               ELSE li' = li + 1 /\ pc' = IF li < Len(listing_urls) THEN "list" ELSE "export"
            /\ rows' = rows /\ seen_urls' = seen_urls]_vars
    /\ <>(pc = "export")

\* C3: the export is reached after a listing page failed, a post failed with
\* candidates left on its page, and a later post was recorded.
ExportAfterFailures ==
    /\ pc = "export"
    /\ \E i, j, k \in 1..Len(hist) :
          /\ hist[i].kind = "list_fail"
          /\ hist[j].kind = "fail"
          /\ hist[k].kind = "ok"
          /\ j < k
          /\ hist[j].li = hist[k].li

\* The source_urls of the records, in order
RowUrlSeq == [k \in 1..Len(rows) |-> rows[k].source_url]

\* The URLs of the encounters at which a record was built, in traversal order
BuiltSeq ==
    LET ok == SelectSeq(hist, LAMBDA e : e.kind = "ok")
    IN  [k \in 1..Len(ok) |-> ok[k].url]

\* C7 (as amended): records are only ever appended, and they stand in the
\* order of the encounters at which they were built, that is the first
\* encounter of each URL that was fetched and parsed without failure or skip.
RowsInBuildOrder ==
    /\ [][rows' # rows =>
            /\ Len(rows') = Len(rows) + 1
            /\ SubSeq(rows', 1, Len(rows)) = rows]_vars
    /\ [](RowUrlSeq = BuiltSeq)

\* C7, a run in which the amended statement differs from the original one: two
\* records, the second for the URL that the traversal came to first.
LaterRecordSeenFirst ==
    /\ pc = "done"
    /\ Len(rows) = 2
    /\ Min(Attempts(rows[2].source_url)) < Min(Attempts(rows[1].source_url))

\* C7 as stated: of any two records, the one whose URL was first encountered
\* earlier in the traversal stands earlier.
RowsInFirstSeenOrder ==
    \A j, k \in 1..Len(rows) :
        j < k => Min(Attempts(rows[j].source_url)) < Min(Attempts(rows[k].source_url))

\* C8: a candidate whose URL is in seen_urls is dropped with no fetch; any
\* other candidate is fetched; seen_urls changes only in a step that built a
\* post without skip, by that URL alone, with exactly one record for it
\* appended; no post is fetched once a record for its URL exists; and an
\* encounter is dropped as a duplicate only when an earlier one was recorded.
SeenGuardsFetch ==
    /\ [][AtCandidate /\ posts[pidx].url \in seen_urls =>
            Stepped("dup") /\ html' = html /\ data' = data /\ rows' = rows]_vars
    /\ [][AtCandidate /\ posts[pidx].url \notin seen_urls =>
            /\ Stepped("fail") \/ Stepped("skip") \/ Stepped("ok")
            /\ posts[pidx].url \notin RowUrls]_vars
    /\ [][seen_urls' # seen_urls =>
            /\ Stepped("ok")
            /\ ~data'.skip
            /\ seen_urls' = seen_urls \cup {posts[pidx].url}
            /\ Len(rows') = Len(rows) + 1
            /\ SubSeq(rows', 1, Len(rows)) = rows
            /\ rows'[Len(rows')].source_url = posts[pidx].url]_vars
    /\ [][Stepped("ok") => seen_urls' # seen_urls]_vars
    /\ [](\A u \in Encountered : \A j \in Attempts(u) :
            hist[j].kind = "dup" <=> \E i \in Built(u) : i < j)

\* C8: one URL was skipped or failed on the first listing page and fetched
\* again and recorded on the second, another was recorded on the first page
\* and dropped without fetch on the second.
RefetchedAndDropped ==
    \E u, v \in Encountered :
        /\ \E i, j \in Attempts(u) :
              i < j /\ hist[i].kind \in {"fail", "skip"} /\ hist[j].kind = "ok"
        /\ \E i, j \in Attempts(v) :
              i < j /\ hist[i].kind = "ok" /\ hist[j].kind = "dup"

\* C10: seen_urls is the set of the source_urls of the records, it has as many
\* members as there are records, and the "Duplicates skipped" statistic of
\* the final print is 0.
SeenIsRecordedUrls ==
    /\ seen_urls = RowUrls
    /\ Cardinality(seen_urls) = Len(rows)
    /\ pc = "done" => stats.duplicates_skipped = 0

\* C10: the run ended with a record and with a duplicate candidate dropped.
DoneWithDuplicateDropped ==
    /\ pc = "done"
    /\ Len(rows) > 0
    /\ stats.total_seen = Len(rows)
    /\ \E i \in 1..Len(hist) : hist[i].kind = "dup"

-----------------------------------------------------------------------------
(* Properties of parse_listing                                             *)

\* The accepted candidates of the parsed page, in discovery order
Candidates == all_links(list_html)

UrlsAndTitles(links) == [k \in 1..Len(links) |-> [url |-> links[k].url, title |-> links[k].title]]

\* C4: parse_listing returns the candidates whose title has a year token, in
\* discovery order, followed by the candidates without one, in discovery
\* order, cut to the first 10.
YearFirstThenFirstTen ==
    pc = "listing_parsed" =>
        LET with    == SelectSeq(Candidates, LAMBDA c : c.has_year)
            without == SelectSeq(Candidates, LAMBDA c : ~c.has_year)
        IN  posts = UrlsAndTitles(Prefix(with \o without, 10))

\* C4: a page with 12 candidates, year tokens at positions 2, 5 and 9, returns
\* positions 2, 5, 9, 1, 3, 4, 6, 7, 8, 10.
TwelveWithYearsAt259 ==
    /\ pc = "listing_parsed"
    /\ Len(Candidates) = 12
    /\ {i \in 1..12 : Candidates[i].has_year} = {2, 5, 9}
    /\ Len(posts) = 10
    /\ \A k \in 1..10 : posts[k].url = Candidates[<<2, 5, 9, 1, 3, 4, 6, 7, 8, 10>>[k]].url

\* The path filter as the claim words it, on the non-empty segments of a path
CleanPath(segs) ==
    LET parts == SelectSeq(segs, LAMBDA p : p # "")
    IN  /\ Len(parts) >= 2
        /\ parts[1] = "Resources"
        /\ parts[2] \notin BAD_SLUGS

\* C6 as stated: is_clean_post_path accepts a link exactly when the first
\* non-empty segment of its path is Resources and a second one is present and
\* not in BAD_SLUGS, and no candidate parse_listing returns violates the filter.
ReturnedLinksPassFilter ==
    /\ \A k \in 1..Len(list_html) :
          is_clean_post_path(list_html[k].href) <=> CleanPath(list_html[k].href.segs)
    /\ \A k \in 1..Len(posts) : is_clean_post_path(posts[k].url)

\* The first sentence of C6 on its own: the filter is the stated condition.
FilterIsCleanPath ==
    \A k \in 1..Len(list_html) :
        is_clean_post_path(list_html[k].href) <=> CleanPath(list_html[k].href.segs)

-----------------------------------------------------------------------------
(* Properties of parse_post                                                *)

\* The elements of the parsed page in document order, and its title element
PageNodes == Nodes(html.page, 1)
TitleAt == TitleNode(PageNodes, html.title)

\* The siblings that follow the title element
Siblings == IF TitleAt = 0 THEN <<>> ELSE NextSiblings(html.page, PageNodes[TitleAt])

\* The siblings kept in the body fragment parse_post returned
Fragment == IF hist[1].body_html = <<>> THEN <<>> ELSE hist[1].body_html[1].kids

\* C5: the fragment holds no sibling whose text (lower-cased, first 40
\* characters) has a stop phrase, and it is drawn, in order, from the siblings
\* that come before the first such sibling.
FragmentEndsAtStopPhrase ==
    pc = "page_parsed" =>
        LET stops  == {k \in 1..Len(Siblings) : IsStop(Siblings[k])}
            before == IF stops = {} THEN Siblings ELSE SubSeq(Siblings, 1, Min(stops) - 1)
        IN  /\ \A k \in 1..Len(Fragment) : ~IsStop(Fragment[k])
            /\ Fragment = SelectSeq(before,
                              LAMBDA e : \E k \in 1..Len(Fragment) : Fragment[k] = e)

\* C5: for the siblings p, p, h4 "Related Posts", p the fragment is the first
\* two paragraphs.
TwoParagraphsBeforeRelated ==
    /\ pc = "page_parsed"
    /\ Siblings = <<El("p", TextBody), El("p", TextBody), El("h4", TextRelated),
                    El("p", TextBody)>>
    /\ Fragment = <<El("p", TextBody), El("p", TextBody)>>

\* The date-pattern match in the normalized text of one element
ElementDate(el) == DateSearch(normalize_spaces(get_text(el, <<" ">>)))

\* No <time> element of the page has text
NoTimeText == \A k \in 1..Len(PageNodes) :
                 PageNodes[k].el.name = "time" => get_text(PageNodes[k].el, <<>>) = <<>>

\* The date text of tiers 2 and 3 when the window of tier 2 is the title element
\* and the n elements that follow it in document order
WindowDate(n) ==
    LET hits == {k \in 1..Len(PageNodes) :
                    /\ TitleAt # 0 /\ TitleAt <= k /\ k <= TitleAt + n
                    /\ ElementDate(PageNodes[k].el) # <<>>}
    IN  IF hits # {} THEN normalize_spaces(ElementDate(PageNodes[Min(hits)].el))
        ELSE normalize_spaces(DateSearch(normalize_spaces(page_text(html.page))))

\* C9 (as amended): with no <time> text, extract_date_text returns the first
\* date-pattern match among the title element and the 7 elements that follow
\* it; only when none of these 8 elements has a match does it return the first
\* match in the whole page text, and the empty string when there is none.
DateFromTitleAndSevenAfter ==
    pc = "page_parsed" /\ NoTimeText => hist[1].date_txt = WindowDate(7)

\* C9, a page on which the amended statement differs from the original one:
\* a date in the 8th element after the title is outside the window, and the
\* whole-page tier returns an earlier date of the page.
EighthElementOutsideWindow ==
    /\ pc = "page_parsed"
    /\ NoTimeText
    /\ hist[1].date_txt # <<>>
    /\ hist[1].date_txt = WindowDate(7)
    /\ WindowDate(7) # WindowDate(8)

\* C9 as stated: the window is the title element and the 8 elements following it.
DateFromTitleAndEightAfter ==
    pc = "page_parsed" /\ NoTimeText => hist[1].date_txt = WindowDate(8)

====
